---- MODULE Spec2Model ----
(***************************************************************************)
(* Invoicing assistant (Google Sheets ledger + Drive + Gmail).             *)
(*                                                                         *)
(* Three entry points share the helpers of invoicing.py/mvp_invoicing.py:  *)
(*   "ui"  - the Streamlit form of app.py,                                 *)
(*   "cli" - main() of invoicing.py,                                       *)
(*   "mvp" - main() of mvp_invoicing.py.                                   *)
(*                                                                         *)
(* Text is modelled as sequences of one-character strings, so that the     *)
(* prefix test, the regular expression, int() and the :04d format of the   *)
(* invoice numbering are computed character by character.                  *)
(***************************************************************************)
EXTENDS Integers, Sequences, FiniteSets, TLC

VARIABLES
    clk,            \* the wall clock, in months (datetime.now())
    base,           \* number of rows the ledger held before the first submission
    ledger,         \* data rows of the "factures" sheet, in append order
    drive,          \* documents stored in the Drive folder, in upload order
    outbox,         \* messages accepted by Gmail, in sending order
    session_state,  \* st.session_state of the UI session: processing, last_sent_key
    submit_disabled,\* the "disabled" attribute the submit button was rendered with
    pc,             \* per entry point: the step its submission is at
    inp,            \* per entry point: the inputs of its submission
    opts,           \* per entry point: the send options, once the handler read them
    invoice_number, \* per entry point: local variable invoice_number
    today,          \* per entry point: local variable today (month of the date)
    drive_link,     \* per entry point: local variable drive_link
    log,            \* per entry point: the steps its submission ran so far
    snap,           \* per entry point: what its numbering read saw
    prev,           \* UI session: the submission handled before the current one
    runs,           \* number of submissions started so far
    header,         \* whether row 1 of the "factures" sheet holds the column titles
    boot,           \* per entry point: its environment and the calls of its start-up
    fn_numbers,     \* numbering function alone: column A2:A of the ledger sheet
    fn_now,         \* numbering function alone: the clock value of datetime.now()
    fn_ok,          \* numbering function alone: whether the sheet read returns
    fn_out,         \* numbering function alone: the returned invoice number
    m_in,           \* money functions alone: the value handed to parse_currency / fmt_eur
    m_out,          \* money functions alone: what came back (a float, or ValueError)
    t_in,           \* totals alone: entry point, product id, quantity, amount typed
    t_out,          \* totals alone: the product found and the amounts computed
    sl_in,          \* slugify alone: the last name and first name of the client
    sl_out,         \* slugify alone: the slugs and the file name made of them
    sd_in,          \* send step alone: entry point, addresses and send options
    sd_out          \* send step alone: the message sent, the flags, the recipient cell

sysvars == <<clk, base, ledger, drive, outbox, session_state, submit_disabled, pc, inp,
             opts, invoice_number, today, drive_link, log, snap, prev, runs, header, boot>>

fnvars == <<fn_numbers, fn_now, fn_ok, fn_out>>

moneyvars == <<m_in, m_out>>

totalsvars == <<t_in, t_out>>

slugvars == <<sl_in, sl_out>>

sendvars == <<sd_in, sd_out>>

purevars == <<moneyvars, totalsvars, slugvars, sendvars>>

vars == <<sysvars, fnvars, purevars>>

(***************************************************************************)
(* Bounds of the model                                                     *)
(***************************************************************************)
MaxSuffixLen == 5

MaxRuns == 2

MaxBoots == 1

MaxTicks == 1

MaxMoneyLen == 5

MaxCents == 150

MaxQty == 3

MaxSlugLen == 4

(***************************************************************************)
(* Text helpers (Python str / re / int / format)                           *)
(***************************************************************************)
Digit == {"0", "1", "2", "3", "4", "5", "6", "7", "8", "9"}

NL == "\n"

\* The empty text (and the value of a local variable not assigned yet).
NoText == <<>>

Whitespace == {" ", "\t", NL}

DigitVal(c) ==
    CASE c = "0" -> 0 [] c = "1" -> 1 [] c = "2" -> 2 [] c = "3" -> 3
      [] c = "4" -> 4 [] c = "5" -> 5 [] c = "6" -> 6 [] c = "7" -> 7
      [] c = "8" -> 8 [] c = "9" -> 9

DigitChar(d) ==
    CASE d = 0 -> "0" [] d = 1 -> "1" [] d = 2 -> "2" [] d = 3 -> "3"
      [] d = 4 -> "4" [] d = 5 -> "5" [] d = 6 -> "6" [] d = 7 -> "7"
      [] d = 8 -> "8" [] d = 9 -> "9"

\* str(n) of a non-negative integer: its decimal digits, no padding.
RECURSIVE Dec(_)
Dec(n) == IF n < 10 THEN <<DigitChar(n)>> ELSE Dec(n \div 10) \o <<DigitChar(n % 10)>>

\* f"{n:0Wd}": the decimal digits, left-padded with zeros to AT LEAST w characters.
RECURSIVE ZeroPad(_, _)
ZeroPad(s, w) == IF Len(s) >= w THEN s ELSE ZeroPad(<<"0">> \o s, w)

Format02d(n) == ZeroPad(Dec(n), 2)

\* Mutant of Format04d: the number is written without zero padding.
Format04d_unpadded(n) == Dec(n)

Format04d(n) == ZeroPad(Dec(n), 4)

\* s.startswith(p)
StartsWith(s, p) == Len(s) >= Len(p) /\ SubSeq(s, 1, Len(p)) = p

\* s.replace(p, ""): every non-overlapping occurrence of p, left to right.
RECURSIVE RemoveAll(_, _)
RemoveAll(s, p) ==
    IF Len(s) = 0 \/ Len(p) = 0 THEN s
    ELSE IF StartsWith(s, p) THEN RemoveAll(SubSeq(s, Len(p) + 1, Len(s)), p)
    ELSE <<Head(s)>> \o RemoveAll(Tail(s), p)

\* s.strip() for the whitespace int() ignores.
RECURSIVE LStrip(_)
LStrip(s) == IF Len(s) > 0 /\ Head(s) \in Whitespace THEN LStrip(Tail(s)) ELSE s

RECURSIVE RStrip(_)
RStrip(s) ==
    IF Len(s) > 0 /\ s[Len(s)] \in Whitespace THEN RStrip(SubSeq(s, 1, Len(s) - 1)) ELSE s

Strip(s) == LStrip(RStrip(s))

\* int(s) for the texts the numbering hands it: surrounding whitespace is
\* ignored, the rest is decimal digits.
RECURSIVE DigitsValue(_)
DigitsValue(s) ==
    IF Len(s) = 0 THEN 0 ELSE 10 * DigitsValue(SubSeq(s, 1, Len(s) - 1)) + DigitVal(s[Len(s)])

PyInt(s) == DigitsValue(Strip(s))

\* re.match(rf"^{prefix}\d{{4}}$", n): prefix, four digits, then the end of the
\* text, where "$" also matches just before one final newline.
ReMatchPrefixD4(prefix, n) ==
    /\ StartsWith(n, prefix)
    /\ Len(n) >= Len(prefix) + 4
    /\ \A i \in 1..4 : n[Len(prefix) + i] \in Digit
    /\ \/ Len(n) = Len(prefix) + 4
       \/ Len(n) = Len(prefix) + 5 /\ n[Len(n)] = NL

RECURSIVE SeqMax(_)
SeqMax(s) ==
    IF Len(s) = 1 THEN s[1]
    ELSE LET m == SeqMax(Tail(s)) IN IF s[1] > m THEN s[1] ELSE m

RECURSIVE MapPyInt(_, _)
MapPyInt(ns, prefix) ==
    IF Len(ns) = 0 THEN <<>>
    ELSE <<PyInt(RemoveAll(Head(ns), prefix))>> \o MapPyInt(Tail(ns), prefix)

(***************************************************************************)
(* The clock: a count of months, so that now.year / now.month are derived  *)
(***************************************************************************)
YearOf(c) == c \div 12

MonthOf(c) == (c % 12) + 1

StartClock == 2025 * 12 + 11     \* December 2025

FACT == <<"F", "A", "C", "T", "-">>

\* prefix = f"FACT-{now.year}{now.month:02d}-"
InvoicePrefix(c) == FACT \o Dec(YearOf(c)) \o Format02d(MonthOf(c)) \o <<"-">>

(***************************************************************************)
(* get_next_invoice_number_monthly                                         *)
(***************************************************************************)
\* next_n: 1 when the read raised (except Exception), else max(seq) + 1 over
\* the cells that pass the filter, or 1 when none does.
NextN(cells, c, read_ok) ==
    LET prefix  == InvoicePrefix(c)
        numbers == SelectSeq(cells, LAMBDA r : Len(r) > 0)
        kept    == SelectSeq(numbers, LAMBDA n : StartsWith(n, prefix) /\ ReMatchPrefixD4(prefix, n))
        seq    == MapPyInt(kept, prefix)
    IN  IF ~read_ok THEN 1
        ELSE IF Len(seq) > 0 THEN SeqMax(seq) + 1 ELSE 1

get_next_invoice_number_monthly(cells, c, read_ok) ==
    InvoicePrefix(c) \o Format04d(NextN(cells, c, read_ok))

(***************************************************************************)
(* Money: parse_currency and fmt_eur of invoicing.py                       *)
(***************************************************************************)
\* A float is modelled by the decimal number it stands for, num / 10^dec,
\* written without trailing zero in the fraction.
RECURSIVE Norm(_)
Norm(v) ==
    IF v.dec > 0 /\ v.num % 10 = 0 THEN Norm([num |-> v.num \div 10, dec |-> v.dec - 1]) ELSE v

Zero == [num |-> 0, dec |-> 0]

RECURSIVE Pow10(_)
Pow10(n) == IF n = 0 THEN 1 ELSE 10 * Pow10(n - 1)

\* The two ways a call ends: a float is returned, or ValueError is raised.
Returned(v) == [done |-> TRUE, raised |-> FALSE, val |-> v]

ValueError == [done |-> TRUE, raised |-> TRUE, val |-> Zero]

\* s.count(c)
Count(s, c) == Cardinality({k \in 1..Len(s) : s[k] = c})

\* s.rfind(c): the 0-based index of the last c, -1 when there is none.
RFind(s, c) ==
    LET ks == {k \in 1..Len(s) : s[k] = c}
    IN  IF ks = {} THEN -1 ELSE (CHOOSE k \in ks : \A j \in ks : j <= k) - 1

\* s.replace(a, b) for one-character a and b
ReplaceChar(s, a, b) == [k \in 1..Len(s) |-> IF s[k] = a THEN b ELSE s[k]]

\* s.replace(c, "") for every c of a set of characters
Without(s, cs) == SelectSeq(s, LAMBDA c : c \notin cs)

\* float(s) for a text of digits, signs, periods and commas: an optional
\* sign, then digits with at most one period and at least one digit.
PyFloat(s) ==
    LET t      == Strip(s)
        signed == Len(t) > 0 /\ t[1] \in {"+", "-"}
        body   == IF signed THEN Tail(t) ELSE t
        dot    == RFind(body, ".")
        digits == Without(body, {"."})
        mag    == DigitsValue(digits)
    IN  IF /\ \A k \in 1..Len(body) : body[k] \in Digit \cup {"."}
           /\ Count(body, ".") <= 1
           /\ Len(digits) > 0
        THEN Returned(Norm([num |-> IF signed /\ t[1] = "-" THEN 0 - mag ELSE mag,
                            dec |-> IF dot = -1 THEN 0 ELSE Len(body) - (dot + 1)]))
        ELSE ValueError

\* re.fullmatch(r"[+-]?\d+", s)
ReFullMatchInt(s) ==
    LET body == IF Len(s) > 0 /\ s[1] \in {"+", "-"} THEN Tail(s) ELSE s
    IN  Len(body) > 0 /\ \A k \in 1..Len(body) : body[k] \in Digit

\* The characters removed one by one: the euro sign, the space and the
\* apostrophe (NFKC has turned the no-break spaces into spaces before).
MoneyJunk == {"€", " ", "'"}

\* re.sub(r"[^\d\.,\-\+]", "", s) keeps these.
MoneyKept == Digit \cup {".", ",", "-", "+"}

\* The text that is left when parse_currency has cleaned its argument.
MoneyCleaned(text) == SelectSeq(Strip(Without(Strip(text), MoneyJunk)), LAMBDA c : c \in MoneyKept)

\* The argument of parse_currency: None, or a text.
NoneVal == [kind |-> "none", text |-> <<>>, amount |-> Zero]

StrVal(text) == [kind |-> "str", text |-> text, amount |-> Zero]

parse_currency(val) ==
    IF val.kind = "none" THEN Returned(Zero)
    ELSE LET s          == MoneyCleaned(val.text)
             last_comma == RFind(s, ",")
             last_dot   == RFind(s, ".")
         IN  IF Len(Strip(val.text)) = 0 THEN Returned(Zero)
             ELSE IF ReFullMatchInt(s) THEN PyFloat(s)
             ELSE IF Count(s, ",") = 1 /\ Count(s, ".") = 0 THEN PyFloat(ReplaceChar(s, ",", "."))
             ELSE IF Count(s, ".") = 1 /\ Count(s, ",") = 0 THEN PyFloat(s)
             ELSE IF last_dot > last_comma THEN PyFloat(Without(s, {","}))
             ELSE PyFloat(ReplaceChar(Without(s, {"."}), ",", "."))

\* round(x * 100) as the format specification .2f rounds: to the nearest
\* cent, a tie going to the even one.
Round2(v) ==
    IF v.dec <= 2 THEN v.num * Pow10(2 - v.dec)
    ELSE LET unit == Pow10(v.dec - 2)
             q    == v.num \div unit
             r    == v.num % unit
         IN  IF 2 * r > unit THEN q + 1
             ELSE IF 2 * r < unit THEN q
             ELSE IF q % 2 = 0 THEN q ELSE q + 1

\* The "," option of the format specification: groups of three digits.
RECURSIVE Group3(_)
Group3(ds) ==
    IF Len(ds) <= 3 THEN ds
    ELSE Group3(SubSeq(ds, 1, Len(ds) - 3)) \o <<",">> \o SubSeq(ds, Len(ds) - 2, Len(ds))

Abs(n) == IF n < 0 THEN 0 - n ELSE n

\* f"{x:.2f}"
Format2f(v) ==
    LET c == Round2(v)
    IN  (IF c < 0 THEN <<"-">> ELSE <<>>) \o Dec(Abs(c) \div 100) \o <<".">>
           \o ZeroPad(Dec(Abs(c) % 100), 2)

\* f"{x:,.2f}"
FormatComma2f(v) ==
    LET c == Round2(v)
    IN  (IF c < 0 THEN <<"-">> ELSE <<>>) \o Group3(Dec(Abs(c) \div 100)) \o <<".">>
           \o ZeroPad(Dec(Abs(c) % 100), 2)

\* Mutant of fmt_eur: the grouping commas are left in place.
fmt_eur_commas(v) == ReplaceChar(FormatComma2f(v) \o <<" ", "€">>, ".", ",")

\* f"{x:,.2f} €".replace(",", " ").replace(".", ",")
fmt_eur(v) == ReplaceChar(ReplaceChar(FormatComma2f(v) \o <<" ", "€">>, ",", " "), ".", ",")

Cents(c) == Norm([num |-> c, dec |-> 2])

AmountVal(v) == [kind |-> "amount", text |-> <<>>, amount |-> v]

NoMoney == NoneVal

NoResult == [done |-> FALSE, raised |-> FALSE, val |-> Zero]

(***************************************************************************)
(* Products and totals (find_product, totals of app.py and invoicing.py)   *)
(***************************************************************************)
\* Arithmetic of the floats, on the decimal numbers they stand for.
Scaled(v, d) == v.num * Pow10(d - v.dec)

MaxDec(a, b) == IF a.dec > b.dec THEN a.dec ELSE b.dec

Plus(a, b) == Norm([num |-> Scaled(a, MaxDec(a, b)) + Scaled(b, MaxDec(a, b)), dec |-> MaxDec(a, b)])

Minus(a, b) == Norm([num |-> Scaled(a, MaxDec(a, b)) - Scaled(b, MaxDec(a, b)), dec |-> MaxDec(a, b)])

Times(a, b) == Norm([num |-> a.num * b.num, dec |-> a.dec + b.dec])

TimesInt(a, n) == Norm([num |-> a.num * n, dec |-> a.dec])

\* 0.20
VariableTvaRate == [num |-> 2, dec |-> 1]

\* str.upper() on the letters the labels of the model are written with
Upper(c) ==
    CASE c = "a" -> "A" [] c = "e" -> "E" [] c = "g" -> "G" [] c = "p" -> "P"
      [] c = "s" -> "S" [] c = "t" -> "T" [] OTHER -> c

UpperText(s) == [k \in 1..Len(s) |-> Upper(s[k])]

\* pat in s
Contains(s, pat) ==
    \E off \in 0..(Len(s) - Len(pat)) : SubSeq(s, off + 1, off + Len(pat)) = pat

PAP_VARIABLE == <<"P", "A", "P", " ", "v", "a", "r", "i", "a", "b", "l", "e">>

STAGE_PAP == <<"S", "T", "A", "G", "E", " ", "P", "A", "P">>

\* The products sheet, columns id, libelle, prix_ht, tva, prix_ttc.
ProductRow(id, libelle, ht, tva, ttc) ==
    [id |-> id, libelle |-> libelle, prix_ht |-> ht, tva |-> tva, prix_ttc |-> ttc]

ProductsSheet ==
    << ProductRow(<<"P", "1">>, <<"S", "e", "a", "n", "c", "e">>,
                  <<"5", "0">>, <<"0", "%">>, <<"5", "0">>),
       ProductRow(<<"P", "2">>, <<"B", "i", "l", "a", "n">>,
                  <<"5", "0", ",", "0", "0", " ", "€">>, <<"0">>, <<"6", "0", ",", "0", "0", " ", "€">>),
       ProductRow(<<"P", "3">>, <<"A", "t", "e", "l", "i", "e", "r">>,
                  <<"1", "0", "0">>, <<"2", "0", "%">>, <<"1", "2", "0">>),
       ProductRow(<<"P", "4">>, <<"C", "o", "n", "s", "e", "i", "l">>,
                  <<"1", "0", ",", "0", "0">>, <<"2", "0", "%">>, <<"1", "2", ",", "0", "1">>),
       ProductRow(PAP_VARIABLE, <<"S", "t", "a", "g", "e">>,
                  <<"1", "0", "0">>, <<"2", "0", "%">>, <<"1", "2", "0">>),
       ProductRow(<<"P", "6">>, <<"s", "t", "a", "g", "e", " ", "p", "a", "p", " ", "2">>,
                  <<"1", "0", "0">>, <<"0", "%">>, <<"1", "0", "0">>),
       ProductRow(<<"p", "a", "p", " ", "v", "a", "r", "i", "a", "b", "l", "e">>, <<"S", "t", "a", "g", "e">>,
                  <<"8", "0">>, <<"2", "0", "%">>, <<"9", "6">>),
       ProductRow(<<"P", "8">>, <<"D", "o", "n">>,
                  <<"n", "/", "a">>, <<"0", "%">>, <<"n", "/", "a">>),
       ProductRow(<<"P", "1">>, <<"D", "o", "u", "b", "l", "o", "n">>,
                  <<"1">>, <<"2", "0", "%">>, <<"2">>) >>

\* The writings of the tva cell that make a product tax-exempt.
ExemptWritings ==
    {<<"0">>, <<"0", "%">>, <<"0", ".", "0">>, <<"0", ".", "0", "0">>, <<"0", ",", "0">>,
     <<"0", ",", "0", "0">>}

NoProduct ==
    [raised |-> TRUE, id |-> NoText, libelle |-> NoText, prix_ht |-> Zero, prix_ttc |-> Zero,
     is_tva_exempt |-> FALSE]

\* normalize_money_display: str(val).strip()
normalize_money_display(val) == Strip(val)

\* The Product made of the row found; parse_currency may raise on a price.
ProductOfRow(r, final_ttc_of_exempt) ==
    LET ht            == parse_currency(StrVal(normalize_money_display(r.prix_ht)))
        ttc           == parse_currency(StrVal(normalize_money_display(r.prix_ttc)))
        is_tva_exempt == Strip(normalize_money_display(r.tva)) \in ExemptWritings
    IN  IF ht.raised \/ ttc.raised THEN NoProduct
        ELSE [raised |-> FALSE, id |-> r.id, libelle |-> r.libelle, prix_ht |-> ht.val,
              prix_ttc |-> IF is_tva_exempt /\ final_ttc_of_exempt = "ht" THEN ht.val ELSE ttc.val,
              is_tva_exempt |-> is_tva_exempt]

FirstRow(products, id) ==
    LET ks == {k \in 1..Len(products) : products[k].id = id}
    IN  IF ks = {} THEN 0 ELSE CHOOSE k \in ks : \A j \in ks : k <= j

\* Mutant of find_product: the gross price of the sheet is kept for a
\* tax-exempt product.
find_product_sheetGross(products, id) ==
    IF FirstRow(products, id) = 0 THEN NoProduct
    ELSE ProductOfRow(products[FirstRow(products, id)], "sheet")

\* find_product(products, id_): the first row with that id, ValueError when
\* there is none; final_ttc = ht if is_tva_exempt else ttc_from_sheet.
find_product(products, id) ==
    IF FirstRow(products, id) = 0 THEN NoProduct
    ELSE ProductOfRow(products[FirstRow(products, id)], "ht")

\* Mutant of is_variable_product: the label is not looked at.
is_variable_product_idOnly(product) == product.id = PAP_VARIABLE

\* product_obj.id == "PAP variable" or "STAGE PAP" in product_obj.libelle.upper()
is_variable_product(product) ==
    product.id = PAP_VARIABLE \/ Contains(UpperText(product.libelle), STAGE_PAP)

Amounts(ht, tva, ttc) == [montant_ht |-> ht, montant_tva |-> tva, montant_ttc |-> ttc]

\* Mutant of CatalogTotals: the tax is 20 % of the net amount.
CatalogTotals_byRate(product, qty) ==
    LET ht == TimesInt(product.prix_ht, qty)
    IN  Amounts(ht, Times(ht, VariableTvaRate), Plus(ht, Times(ht, VariableTvaRate)))

\* montant_ht = prix_ht * qty; montant_ttc = prix_ttc * qty;
\* montant_tva = montant_ttc - montant_ht
CatalogTotals(product, qty) ==
    LET ht  == TimesInt(product.prix_ht, qty)
        ttc == TimesInt(product.prix_ttc, qty)
    IN  Amounts(ht, Minus(ttc, ht), ttc)

\* montant_ht = montant_ht_manuel * qty; montant_tva = montant_ht * 0.20;
\* montant_ttc = montant_ht + montant_tva
VariableTotals(montant_ht_manuel, qty) ==
    LET ht  == TimesInt(montant_ht_manuel, qty)
        tva == Times(ht, VariableTvaRate)
    IN  Amounts(ht, tva, Plus(ht, tva))

\* The entry points that compute totals with invoicing.py.
TotalsProcs == {"ui", "cli"}

\* Only the form of the UI has the variable-amount mode.
VariableMode(p, product) == p = "ui" /\ is_variable_product(product)

Totals(p, product, qty, montant_ht_manuel) ==
    IF VariableMode(p, product) THEN VariableTotals(montant_ht_manuel, qty)
    ELSE CatalogTotals(product, qty)

\* The three amount cells of the ledger row: f"{montant:.2f}"
RowAmounts(a) == <<Format2f(a.montant_ht), Format2f(a.montant_tva), Format2f(a.montant_ttc)>>

\* The amounts on display: the metrics of the preview (UI), the totals table
\* of the document, which generate_invoice_pdf computes from the product.
ShownAmounts(p, product, qty, a) ==
    LET d == IF p = "ui" THEN a ELSE CatalogTotals(product, qty)
    IN  <<fmt_eur(d.montant_ht), fmt_eur(d.montant_tva), fmt_eur(d.montant_ttc)>>

NoTotalsInput == [p |-> "cli", id |-> NoText, qty |-> 0, montant_ht_manuel |-> Zero]

NoTotals ==
    [done |-> FALSE, product |-> NoProduct, variable |-> FALSE, amounts |-> Amounts(Zero, Zero, Zero),
     row |-> <<>>, shown |-> <<>>]

(***************************************************************************)
(* File names: slugify and the name of the document                        *)
(***************************************************************************)
AZ ==
    {"a", "b", "c", "d", "e", "f", "g", "h", "i", "j", "k", "l", "m", "n", "o", "p", "q", "r",
     "s", "t", "u", "v", "w", "x", "y", "z"}

\* str.lower() on the letters the names of the model are written with
Lower(c) ==
    CASE c = "A" -> "a" [] c = "J" -> "j" [] c = "Z" -> "z" [] c = "É" -> "é" [] OTHER -> c

LowerText(s) == [k \in 1..Len(s) |-> Lower(s[k])]

\* re.sub(r"[cs]+", rep, s), or re.sub(r"[^cs]+", rep, s) when negated:
\* every maximal run of matching characters becomes rep.
RECURSIVE ReSubRuns(_, _, _, _, _)
ReSubRuns(s, cs, negated, rep, inrun) ==
    IF Len(s) = 0 THEN <<>>
    ELSE IF (Head(s) \in cs) # negated
         THEN (IF inrun THEN <<>> ELSE <<rep>>) \o ReSubRuns(Tail(s), cs, negated, rep, TRUE)
         ELSE <<Head(s)>> \o ReSubRuns(Tail(s), cs, negated, rep, FALSE)

\* s.strip(chars)
RECURSIVE LStripOf(_, _)
LStripOf(s, cs) == IF Len(s) > 0 /\ Head(s) \in cs THEN LStripOf(Tail(s), cs) ELSE s

RECURSIVE RStripOf(_, _)
RStripOf(s, cs) ==
    IF Len(s) > 0 /\ s[Len(s)] \in cs THEN RStripOf(SubSeq(s, 1, Len(s) - 1), cs) ELSE s

StripOf(s, cs) == LStripOf(RStripOf(s, cs), cs)

\* Mutant of slugify: the underscores at both ends are left in place.
slugify_untrimmed(s) ==
    ReSubRuns(ReSubRuns(Strip(LowerText(s)), AZ \cup Digit, TRUE, "_", FALSE), {"_"}, FALSE, "_", FALSE)

\* s = (s or "").lower().strip(); s = re.sub(r"[^a-z0-9]+", "_", s);
\* return re.sub(r"_+", "_", s).strip("_")
slugify(s) ==
    LET lowered == Strip(LowerText(s))
        subbed  == ReSubRuns(lowered, AZ \cup Digit, TRUE, "_", FALSE)
    IN  StripOf(ReSubRuns(subbed, {"_"}, FALSE, "_", FALSE), {"_"})

PDF == <<".", "p", "d", "f">>

\* filename = f"{invoice_number}_{slugify(client.nom)}_{slugify(client.prenom)}.pdf"
Filename(number, nom, prenom) ==
    number \o <<"_">> \o slugify(nom) \o <<"_">> \o slugify(prenom) \o PDF

NoNames == [nom |-> NoText, prenom |-> NoText]

NoSlug == [done |-> FALSE, slug |-> NoText, again |-> NoText, filename |-> NoText]

(***************************************************************************)
(* Tables, form inputs and configuration                                   *)
(***************************************************************************)
Procs == {"ui", "cli", "mvp"}

\* The clients sheet: id -> mail ("" when the client has no address).
ClientIds == {<<"C", "1">>, <<"C", "2">>}

ClientMail(id) == IF id = <<"C", "1">> THEN "c1@mail" ELSE ""

ProductIds == {<<"P", "1">>}

Qtys == {1}

\* Notes typed in the form or given with --notes: empty, blank, a text.
NotesSet == {<<>>, <<" ">>, <<"s">>}

\* The text given with --notes on the command line.
CliNotesSet == {<<"s">>}

ACCOUNTANT_EMAIL == "compta@mail"

NoInput == [client |-> NoText, product |-> NoText, qty |-> 0, notes |-> NoText]

\* The older command line is run for the client that has an address.
Inputs(p) ==
    [client : IF p = "mvp" THEN {<<"C", "1">>} ELSE ClientIds,
     product : ProductIds, qty : Qtys,
     notes : IF p = "ui" THEN NotesSet ELSE CliNotesSet]

\* The two check boxes of the form ("Envoyer au client", "Envoyer au
\* comptable"); the command line has none and always sends.
NoOpts == [send_to_client |-> TRUE, send_to_accountant |-> TRUE]

SendOptions(p) ==
    IF p = "ui"
    THEN [send_to_client : BOOLEAN, send_to_accountant : BOOLEAN]
    ELSE {NoOpts}

(***************************************************************************)
(* The ledger                                                              *)
(***************************************************************************)
\* A row found in the sheet before any submission of the model: only its
\* number cell matters to the numbering.
OldRow(numero) ==
    [numero |-> numero, date |-> 0, client_id |-> NoText, produit_id |-> NoText,
     quantite |-> 0, lien_drive |-> 0, email_envoye_a |-> "",
     readAt |-> 0, readOk |-> TRUE, ym |-> 0]

Cell(c, digits) == InvoicePrefix(c) \o digits

InitColumns ==
    { <<>>,
      <<Cell(StartClock, <<"9", "9", "9", "9">>)>>,
      <<Cell(StartClock - 1, <<"0", "0", "9", "9">>), Cell(StartClock, <<"0", "0", "0", "2">>)>> }

RECURSIVE ColumnA(_)
ColumnA(rows) == IF Len(rows) = 0 THEN <<>> ELSE <<Head(rows).numero>> \o ColumnA(Tail(rows))

(***************************************************************************)
(* generate_invoice_pdf: the parameters it declares, and the keyword       *)
(* arguments each entry point calls it with                                *)
(***************************************************************************)
GenerateInvoicePdfParams ==
    {"output_path", "invoice_number", "date_str", "practice_name", "practice_address",
     "practice_siret", "practice_tva_number", "client", "product", "qty", "notes"}

CallKeywords(p) ==
    IF p = "ui"
    THEN GenerateInvoicePdfParams \cup
         {"practice_adeli_number", "montant_ht_override", "montant_tva_override",
          "montant_ttc_override"}
    ELSE GenerateInvoicePdfParams

\* A call with a keyword the function does not declare raises TypeError.
KeywordsAccepted(p) == CallKeywords(p) \subseteq GenerateInvoicePdfParams

(***************************************************************************)
(* Control flow of one submission                                          *)
(***************************************************************************)
Recipient(p) == ClientMail(inp[p].client)

\* if send_to_client and recipient (UI) / if recipient (command line)
EmailWanted(p, o) ==
    IF p = "ui" THEN o.send_to_client /\ Recipient(p) # "" ELSE Recipient(p) # ""

\* cc of the message: the accountant, in the UI only when the box is checked.
EmailCc(p) ==
    IF p = "ui"
    THEN (IF opts[p].send_to_accountant THEN ACCOUNTANT_EMAIL ELSE "")
    ELSE ACCOUNTANT_EMAIL

\* Mutant of StepAfter: the row is appended right after the render and the
\* document is uploaded last.
StepAfter_appendFirst(step, wanted) ==
    CASE step = "number" -> "today"
      [] step = "today"  -> "render"
      [] step = "render" -> "append"
      [] step = "append" -> IF wanted THEN "email" ELSE "upload"
      [] step = "email"  -> "upload"
      [] step = "upload" -> "done"

\* The statement that follows each step when it is over; after the upload
\* it depends on whether a message is to be sent.
StepAfter(step, wanted) ==
    CASE step = "number" -> "today"
      [] step = "today"  -> "render"
      [] step = "render" -> "upload"
      [] step = "upload" -> IF wanted THEN "email" ELSE "append"
      [] step = "email"  -> "append"
      [] step = "append" -> "done"

\* Mutant of Swallows: every entry point goes on after a failed send.
Swallows_everywhere(p, step) == step = "email"

\* try/except around the step that only reports the exception and goes on.
Swallows(p, step) == p = "mvp" /\ step = "email"

\* send_key = f"{invoice_number}|{client_obj.id}|{product_obj.id}|{qty}|{notes.strip()}"
SendKey(number, i) ==
    number \o <<"|">> \o i.client \o <<"|">> \o i.product \o <<"|">> \o Dec(i.qty)
           \o <<"|">> \o Strip(i.notes)

\* Mutant of NotesBlank: only the empty text is refused.
NotesBlank_emptyOnly(notes) == Len(notes) = 0

\* not notes or not notes.strip()
NotesBlank(notes) == Len(notes) = 0 \/ Len(Strip(notes)) = 0

\* Mutant of RowNumero: the number is computed again from the ledger as it
\* is when the row is appended.
RowNumero_renumbered(p) == get_next_invoice_number_monthly(ColumnA(ledger), clk, TRUE)

\* The number written in the first cell of the appended row.
RowNumero(p) == invoice_number[p]

NewRow(p) ==
    [numero |-> RowNumero(p), date |-> today[p], client_id |-> inp[p].client,
     produit_id |-> inp[p].product, quantite |-> inp[p].qty,
     lien_drive |-> drive_link[p], email_envoye_a |-> Recipient(p),
     readAt |-> snap[p].readAt, readOk |-> snap[p].readOk, ym |-> snap[p].ym]

\* Mutant of append_facture_row: the new row is written over the last one.
append_facture_row_overwrite(rows, row) ==
    IF Len(rows) = 0 THEN <<row>> ELSE [rows EXCEPT ![Len(rows)] = row]

\* values().append(range="'factures'!A2", body={"values": [row]})
append_facture_row(rows, row) == Append(rows, row)

NoSnap == [readAt |-> 0, readOk |-> TRUE, ym |-> 0]

NoPrev == [inp |-> NoInput, clean |-> FALSE]

Logged(p, step, ok) == Append(log[p], [step |-> step, ok |-> ok])

\* The external services a submission calls.
Collaborators == {"number", "upload", "email", "append"}

NoCollaboratorFailed(steps) ==
    \A k \in 1..Len(steps) : steps[k].step \in Collaborators => steps[k].ok

\* The states in which a submission is over and its outcome is on display.
Over == {"done", "failed", "stopped"}

(***************************************************************************)
(* The send step: from the return of the upload to the recipient cell      *)
(***************************************************************************)
\* What the step is given: the mail of the client, the two check boxes (UI),
\* COMPTABLE_EMAIL and PRACTITIONER_EMAIL of the environment ("" when unset).
SendInput(p, mail, send_to_client, send_to_accountant, accountant, sender) ==
    [p |-> p, mail |-> mail, send_to_client |-> send_to_client,
     send_to_accountant |-> send_to_accountant, accountant |-> accountant, sender |-> sender]

\* if send_to_client and recipient (UI) / if recipient (command line)
SendWanted(i) == IF i.p = "ui" THEN i.send_to_client /\ i.mail # "" ELSE i.mail # ""

\* cc_email = ACCOUNTANT_EMAIL if send_to_accountant else None (UI);
\* accountant_email or None (command line); "" stands for None.
CcEmail(i) == IF i.p = "ui" /\ ~i.send_to_accountant THEN "" ELSE i.accountant

\* send_email_gmail(gmail, SENDER_EMAIL or "me", recipient, cc_email, ...):
\* the Cc header is set only for a non-empty cc.
Message(i) == [from |-> IF i.sender # "" THEN i.sender ELSE "me", to |-> i.mail, cc |-> CcEmail(i)]

\* The lines shown once the row is appended (UI).
ShownLines(i, send_ok_client, send_ok_accountant) ==
    (IF send_ok_client
     THEN (IF send_ok_accountant THEN {"sent to client, cc accountant"} ELSE {"sent to client"})
     ELSE IF i.send_to_client /\ i.mail = "" THEN {"not sent to client: no address"}
     ELSE {"not sent to client: option off"})
    \cup (IF ~i.send_to_accountant THEN {"not sent to accountant: option off"} ELSE {})

\* recipient = client_obj.mail or ""; the message when it is wanted; the
\* flags send_ok_client and send_ok_accountant; the last cell of the row.
\* A send that raises ends the run, except in main of mvp_invoicing.py.
SendStep(i, gmail_ok) ==
    LET sent               == SendWanted(i) /\ gmail_ok
        raised             == SendWanted(i) /\ ~gmail_ok /\ ~Swallows(i.p, "email")
        send_ok_client     == i.p = "ui" /\ sent
        send_ok_accountant == i.p = "ui" /\ sent /\ i.send_to_accountant
    IN  [done |-> TRUE, raised |-> raised,
         sent |-> IF sent THEN <<Message(i)>> ELSE <<>>,
         send_ok_client |-> send_ok_client, send_ok_accountant |-> send_ok_accountant,
         row |-> IF raised THEN <<>> ELSE <<i.mail>>,
         shown |-> IF i.p = "ui" /\ ~raised THEN ShownLines(i, send_ok_client, send_ok_accountant)
                   ELSE {}]

NoSendInput == SendInput("cli", "", TRUE, TRUE, "", "")

NoSend ==
    [done |-> FALSE, raised |-> FALSE, sent |-> <<>>, send_ok_client |-> FALSE,
     send_ok_accountant |-> FALSE, row |-> <<>>, shown |-> {}]

(***************************************************************************)
(* Start-up of an entry point                                              *)
(***************************************************************************)
\* GOOGLE_FOLDER_ID and ACCOUNTING_SPREADSHEET_ID: set (TRUE) or absent.
Envs == [GOOGLE_FOLDER_ID : BOOLEAN, ACCOUNTING_SPREADSHEET_ID : BOOLEAN]

FullEnv == [GOOGLE_FOLDER_ID |-> TRUE, ACCOUNTING_SPREADSHEET_ID |-> TRUE]

\* Mutant of ConfigComplete: only the spreadsheet identifier is required.
ConfigComplete_sheetOnly(env) == env.ACCOUNTING_SPREADSHEET_ID

\* not (not folder_id or not acc_ss_id)
ConfigComplete(env) == env.GOOGLE_FOLDER_ID /\ env.ACCOUNTING_SPREADSHEET_ID

\* What the operator gets when the environment is incomplete: st.error and
\* st.stop() in the UI, a printed line and sys.exit(1) on the command line.
ConfigDiagnostic(p) == IF p = "ui" THEN "st.error, st.stop" ELSE "print, exit 1"

\* Mutant of ClientFound: any id is taken as found.
ClientFound_any(id) == TRUE

\* find_client / find_product return when a row of the table has the id,
\* and raise ValueError otherwise.
ClientFound(id) == id \in ClientIds

ProductFound(id) == id \in ProductIds

\* The ids given on the command line may be ones the tables do not hold;
\* the form of the UI offers the ids of the tables only.
BootInputs(p) ==
    IF p = "ui" THEN Inputs(p)
    ELSE [client : ClientIds \cup {<<"C", "9">>}, product : ProductIds \cup {<<"P", "9">>},
          qty : Qtys, notes : CliNotesSet]

NoBoot == [env |-> FullEnv, calls |-> <<>>, outcome |-> ""]

(***************************************************************************)
(* Initial state                                                           *)
(***************************************************************************)
FnIdle ==
    /\ fn_numbers = <<>>
    /\ fn_now = StartClock
    /\ fn_ok = TRUE
    /\ fn_out = <<>>

MoneyIdle ==
    /\ m_in = NoMoney
    /\ m_out = NoResult

TotalsIdle ==
    /\ t_in = NoTotalsInput
    /\ t_out = NoTotals

SlugIdle ==
    /\ sl_in = NoNames
    /\ sl_out = NoSlug

SendIdle ==
    /\ sd_in = NoSendInput
    /\ sd_out = NoSend

PureIdle == MoneyIdle /\ TotalsIdle /\ SlugIdle /\ SendIdle

SysInitFrom(col, hdr) ==
    /\ header = hdr
    /\ boot = [p \in Procs |-> NoBoot]
    /\ clk = StartClock
    /\ ledger = [i \in 1..Len(col) |-> OldRow(col[i])]
    /\ base = Len(col)
    /\ drive = <<>>
    /\ outbox = <<>>
    /\ session_state = [processing |-> FALSE, last_sent_key |-> NoText]
    /\ submit_disabled = FALSE
    /\ pc = [p \in Procs |-> "idle"]
    /\ inp = [p \in Procs |-> NoInput]
    /\ opts = [p \in Procs |-> NoOpts]
    /\ invoice_number = [p \in Procs |-> NoText]
    /\ today = [p \in Procs |-> 0]
    /\ drive_link = [p \in Procs |-> 0]
    /\ log = [p \in Procs |-> <<>>]
    /\ snap = [p \in Procs |-> NoSnap]
    /\ prev = NoPrev
    /\ runs = 0

\* The state before any submission, the column titles in place.
SysInitWith(col) == SysInitFrom(col, TRUE)

SysInit == \E col \in InitColumns : SysInitWith(col)

Init == SysInit /\ FnIdle /\ PureIdle

(***************************************************************************)
(* Actions                                                                 *)
(***************************************************************************)
\* A step raised and nothing swallowed it: the UI's "except Exception"
\* shows the error, the command line dies with a traceback.
Raises(p, step) ==
    /\ log' = [log EXCEPT ![p] = Logged(p, step, FALSE)]
    /\ pc' = [pc EXCEPT ![p] = "failed"]

\* A step is over (it returned, or its exception was swallowed): the
\* submission goes on with the next statement.
GoesOn(p, step, ok, wanted) ==
    /\ log' = [log EXCEPT ![p] = Logged(p, step, ok)]
    /\ pc' = [pc EXCEPT ![p] = StepAfter(step, wanted)]

\* The handler of the form, from "if submitted and not processing" to the
\* numbering call (the command line has no such test).  The button is drawn
\* before the handler runs.
Handle(p, i) ==
    /\ inp' = [inp EXCEPT ![p] = i]
    /\ IF p = "ui"
       THEN /\ submit_disabled' = session_state.processing
            /\ IF session_state.processing
               THEN UNCHANGED <<pc, session_state>>
               ELSE IF NotesBlank(i.notes)
               THEN /\ pc' = [pc EXCEPT ![p] = "stopped"]
                    /\ UNCHANGED session_state
               ELSE /\ pc' = [pc EXCEPT ![p] = "number"]
                    /\ session_state' = [session_state EXCEPT !.processing = TRUE]
       ELSE /\ pc' = [pc EXCEPT ![p] = "number"]
            /\ UNCHANGED <<submit_disabled, session_state>>

\* The operator submits the form (a script rerun with submitted = True), or
\* starts the command line, in an installation whose environment is
\* complete, whose sheets are readable and hold the ids asked for, and
\* whose ledger sheet has its titles: the start-up changes nothing.
Submit(p) ==
    /\ pc[p] = "idle"
    /\ runs < MaxRuns
    /\ runs' = runs + 1
    /\ \E i \in Inputs(p) : Handle(p, i)
    /\ UNCHANGED <<clk, base, opts, ledger, drive, outbox, invoice_number, today, drive_link,
                   log, snap, prev, header, boot>>
    /\ UNCHANGED <<fnvars, purevars>>

\* The same run from its first line, in any installation: the environment
\* check, the credentials, the titles of the ledger sheet, the two tables,
\* the look-up of the client and of the product, then the handler.
Boot(p) ==
    /\ pc[p] = "idle"
    /\ runs < MaxBoots
    /\ runs' = runs + 1
    /\ \E env \in Envs, i \in BootInputs(p), titles_ok \in BOOLEAN, tables_ok \in BOOLEAN :
          LET rewrite == ~(header /\ titles_ok)
              titles  == IF rewrite THEN <<"get A1:M1", "update A1:M1">> ELSE <<"get A1:M1">>
          IN  IF ~ConfigComplete(env)
              THEN /\ boot' = [boot EXCEPT ![p] =
                                 [env |-> env, calls |-> <<>>, outcome |-> ConfigDiagnostic(p)]]
                   /\ pc' = [pc EXCEPT ![p] = "stopped"]
                   /\ inp' = [inp EXCEPT ![p] = i]
                   /\ UNCHANGED <<header, submit_disabled, session_state>>
              ELSE /\ header' = TRUE
                   /\ IF ~tables_ok
                      THEN /\ boot' = [boot EXCEPT ![p] =
                                         [env |-> env, calls |-> <<"credentials">> \o titles \o <<"get clients">>,
                                          outcome |-> "HttpError"]]
                           /\ pc' = [pc EXCEPT ![p] = "failed"]
                           /\ inp' = [inp EXCEPT ![p] = i]
                           /\ UNCHANGED <<submit_disabled, session_state>>
                      ELSE IF ~(ClientFound(i.client) /\ ProductFound(i.product))
                      THEN /\ boot' = [boot EXCEPT ![p] =
                                         [env |-> env,
                                          calls |-> <<"credentials">> \o titles \o <<"get clients", "get products">>,
                                          outcome |-> "ValueError"]]
                           /\ pc' = [pc EXCEPT ![p] = "failed"]
                           /\ inp' = [inp EXCEPT ![p] = i]
                           /\ UNCHANGED <<submit_disabled, session_state>>
                      ELSE /\ boot' = [boot EXCEPT ![p] =
                                         [env |-> env,
                                          calls |-> <<"credentials">> \o titles \o <<"get clients", "get products">>,
                                          outcome |-> ""]]
                           /\ Handle(p, i)
    /\ UNCHANGED <<clk, base, opts, ledger, drive, outbox, invoice_number, today, drive_link,
                   log, snap, prev>>
    /\ UNCHANGED <<fnvars, purevars>>

\* get_next_invoice_number_monthly: reads column A, which may raise; the
\* function itself never raises.
Number(p) ==
    /\ pc[p] = "number"
    /\ \E ok \in BOOLEAN :
          /\ invoice_number' =
                [invoice_number EXCEPT ![p] = get_next_invoice_number_monthly(ColumnA(ledger), clk, ok)]
          /\ snap' = [snap EXCEPT ![p] = [readAt |-> Len(ledger), readOk |-> ok, ym |-> clk]]
          /\ GoesOn(p, "number", ok, FALSE)
    /\ UNCHANGED <<clk, base, ledger, drive, outbox, session_state, submit_disabled, inp, opts,
                   today, drive_link, prev, runs>>
    /\ UNCHANGED <<header, boot>>
    /\ UNCHANGED <<fnvars, purevars>>

\* today = datetime.now()...; in the UI the anti double-send key is then
\* compared with the last key sent and st.stop() ends the run when equal.
Today(p) ==
    /\ pc[p] = "today"
    /\ today' = [today EXCEPT ![p] = clk]
    /\ pc' = [pc EXCEPT ![p] =
                IF p = "ui" /\ session_state.last_sent_key = SendKey(invoice_number[p], inp[p])
                THEN "stopped"
                ELSE StepAfter("today", FALSE)]
    /\ UNCHANGED <<clk, base, ledger, drive, outbox, session_state, submit_disabled, inp, opts,
                   invoice_number, drive_link, log, snap, prev, runs>>
    /\ UNCHANGED <<header, boot>>
    /\ UNCHANGED <<fnvars, purevars>>

\* generate_invoice_pdf(...): raises TypeError on an undeclared keyword, and
\* may fail while building the document.
Render(p) ==
    /\ pc[p] = "render"
    /\ \E ok \in BOOLEAN :
          IF KeywordsAccepted(p) /\ ok THEN GoesOn(p, "render", TRUE, FALSE) ELSE Raises(p, "render")
    /\ UNCHANGED <<clk, base, ledger, drive, outbox, session_state, submit_disabled, inp, opts,
                   invoice_number, today, drive_link, snap, prev, runs>>
    /\ UNCHANGED <<header, boot>>
    /\ UNCHANGED <<fnvars, purevars>>

\* upload_to_drive; drive_link = uploaded["link"]; then the send options are
\* read for the first time, to decide whether a message is sent.
Upload(p) ==
    /\ pc[p] = "upload"
    /\ \E ok \in BOOLEAN :
          IF ok
          THEN /\ drive' = Append(drive, [numero |-> invoice_number[p]])
               /\ drive_link' = [drive_link EXCEPT ![p] = Len(drive) + 1]
               /\ \E o \in SendOptions(p) :
                     /\ opts' = [opts EXCEPT ![p] = o]
                     /\ GoesOn(p, "upload", TRUE, EmailWanted(p, o))
          ELSE /\ Raises(p, "upload")
               /\ UNCHANGED <<drive, drive_link, opts>>
    /\ UNCHANGED <<clk, base, ledger, outbox, session_state, submit_disabled, inp,
                   invoice_number, today, snap, prev, runs>>
    /\ UNCHANGED <<header, boot>>
    /\ UNCHANGED <<fnvars, purevars>>

\* send_email_gmail, with the document attached
Email(p) ==
    /\ pc[p] = "email"
    /\ \E ok \in BOOLEAN :
          IF ok
          THEN /\ outbox' = Append(outbox, [to |-> Recipient(p), cc |-> EmailCc(p),
                                            numero |-> invoice_number[p]])
               /\ GoesOn(p, "email", TRUE, FALSE)
          ELSE /\ UNCHANGED outbox
               /\ IF Swallows(p, "email") THEN GoesOn(p, "email", FALSE, FALSE) ELSE Raises(p, "email")
    /\ UNCHANGED <<clk, base, ledger, drive, session_state, submit_disabled, inp, opts,
                   invoice_number, today, drive_link, snap, prev, runs>>
    /\ UNCHANGED <<header, boot>>
    /\ UNCHANGED <<fnvars, purevars>>

\* append_facture_row, then (UI) the anti double-send marker
AppendRow(p) ==
    /\ pc[p] = "append"
    /\ \E ok \in BOOLEAN :
          IF ok
          THEN /\ ledger' = append_facture_row(ledger, NewRow(p))
               /\ GoesOn(p, "append", TRUE, FALSE)
               /\ session_state' =
                     IF p = "ui"
                     THEN [session_state EXCEPT !.last_sent_key = SendKey(invoice_number[p], inp[p])]
                     ELSE session_state
          ELSE /\ Raises(p, "append")
               /\ UNCHANGED <<ledger, session_state>>
    /\ UNCHANGED <<clk, base, drive, outbox, submit_disabled, inp, opts,
                   invoice_number, today, drive_link, snap, prev, runs>>
    /\ UNCHANGED <<header, boot>>
    /\ UNCHANGED <<fnvars, purevars>>

\* Mutant of Finally: the flag is reset only after a submission that
\* ran to its end.
Finally_onSuccess(p, ss) ==
    IF p = "ui" /\ ss.processing /\ pc[p] = "done" THEN [ss EXCEPT !.processing = FALSE] ELSE ss

\* finally: st.session_state.processing = False, for a handler that entered
\* the try block (the flag is set on the line before it).
Finally(p, ss) ==
    IF p = "ui" /\ ss.processing THEN [ss EXCEPT !.processing = FALSE] ELSE ss

\* The submission is over: the UI has shown its messages and runs "finally"
\* when the handler had entered "try"; the command line process exits.
Exit(p) ==
    /\ pc[p] \in Over
    /\ pc' = [pc EXCEPT ![p] = "idle"]
    /\ session_state' = Finally(p, session_state)
    /\ prev' = IF p = "ui" /\ boot[p].outcome = ""
               THEN [inp |-> inp[p],
                     clean |-> ~NotesBlank(inp[p].notes) /\ NoCollaboratorFailed(log[p])]
               ELSE prev
    /\ inp' = [inp EXCEPT ![p] = NoInput]
    /\ opts' = [opts EXCEPT ![p] = NoOpts]
    /\ invoice_number' = [invoice_number EXCEPT ![p] = NoText]
    /\ today' = [today EXCEPT ![p] = 0]
    /\ drive_link' = [drive_link EXCEPT ![p] = 0]
    /\ log' = [log EXCEPT ![p] = <<>>]
    /\ snap' = [snap EXCEPT ![p] = NoSnap]
    /\ UNCHANGED <<clk, base, ledger, drive, outbox, submit_disabled, runs>>
    /\ boot' = [boot EXCEPT ![p] = NoBoot]
    /\ UNCHANGED header
    /\ UNCHANGED <<fnvars, purevars>>

Next ==
    \/ \E p \in Procs : Submit(p)
    \/ \E p \in Procs : Number(p)
    \/ \E p \in Procs : Today(p)
    \/ \E p \in Procs : Render(p)
    \/ \E p \in Procs : Upload(p)
    \/ \E p \in Procs : Email(p)
    \/ \E p \in Procs : AppendRow(p)
    \/ \E p \in Procs : Exit(p)

Spec == Init /\ [][Next]_vars

(***************************************************************************)
(* The same entry points from their first line, in any installation        *)
(***************************************************************************)
\* The titles may be missing from a ledger sheet that has no row yet.
StartInit ==
    /\ \E col \in InitColumns, hdr \in BOOLEAN :
          /\ (Len(col) > 0 => hdr)
          /\ SysInitFrom(col, hdr)
    /\ FnIdle
    /\ PureIdle

StartNext ==
    \/ \E p \in Procs : Boot(p)
    \/ \E p \in Procs : Number(p)
    \/ \E p \in Procs : Today(p)
    \/ \E p \in Procs : Render(p)
    \/ \E p \in Procs : Upload(p)
    \/ \E p \in Procs : Email(p)
    \/ \E p \in Procs : AppendRow(p)
    \/ \E p \in Procs : Exit(p)

SpecStart == StartInit /\ [][StartNext]_vars

(***************************************************************************)
(* Submissions one after the other, while the clock runs                   *)
(***************************************************************************)
\* The quantity of the form: st.number_input(min_value=1, max_value=100,
\* value=1, step=1) hands the handler an integer of that range.
FormQtys == {1, 100}

\* The quantity of the command line: --qty with type=int, default 1; any
\* integer is taken.
ArgQtys == {0, 1, 101}

SeqInputs(p) ==
    [client : IF p = "mvp" THEN {<<"C", "1">>} ELSE ClientIds,
     product : ProductIds,
     qty : IF p = "ui" THEN FormQtys ELSE ArgQtys,
     notes : IF p = "ui" THEN NotesSet ELSE CliNotesSet]

\* A submission that starts when no other is under way.
SubmitAlone(p) ==
    /\ \A q \in Procs : pc[q] = "idle"
    /\ runs < MaxRuns
    /\ runs' = runs + 1
    /\ \E i \in SeqInputs(p) : Handle(p, i)
    /\ UNCHANGED <<clk, base, opts, ledger, drive, outbox, invoice_number, today, drive_link,
                   log, snap, prev, header, boot>>
    /\ UNCHANGED <<fnvars, purevars>>

\* The month changes (datetime.now() is read anew at each call).
Tick ==
    /\ clk < StartClock + MaxTicks
    /\ clk' = clk + 1
    /\ UNCHANGED <<base, ledger, drive, outbox, session_state, submit_disabled, pc, inp, opts,
                   invoice_number, today, drive_link, log, snap, prev, runs, header, boot>>
    /\ UNCHANGED <<fnvars, purevars>>

SeqNext ==
    \/ \E p \in Procs : SubmitAlone(p)
    \/ \E p \in Procs : Number(p)
    \/ \E p \in Procs : Today(p)
    \/ \E p \in Procs : Render(p)
    \/ \E p \in Procs : Upload(p)
    \/ \E p \in Procs : Email(p)
    \/ \E p \in Procs : AppendRow(p)
    \/ \E p \in Procs : Exit(p)
    \/ Tick

SpecSeq == Init /\ [][SeqNext]_vars

(***************************************************************************)
(* The numbering function alone, on bounded contents of column A           *)
(***************************************************************************)
SuffixChars == {"0", "9", "x", NL}

Suffixes == UNION {[1..n -> SuffixChars] : n \in 0..MaxSuffixLen}

\* What a cell of column A starts with: the prefix of either month, a text
\* that is not the prefix, or nothing.
CellStarts ==
    {InvoicePrefix(StartClock), InvoicePrefix(StartClock + 1),
     <<"F", "A", "C", "-">> \o Dec(YearOf(StartClock)) \o Format02d(MonthOf(StartClock)) \o <<"-">>}

NumCells == {st \o su : st \in CellStarts, su \in Suffixes}

Anchor == Cell(StartClock, <<"0", "0", "0", "3">>)

NumColumns ==
    {<<>>} \cup {<<c>> : c \in NumCells} \cup {<<Anchor, c>> : c \in NumCells}
           \cup {<<c, Anchor>> : c \in NumCells}

NumInit ==
    /\ SysInitWith(<<>>)
    /\ fn_numbers \in NumColumns
    /\ fn_now \in {StartClock, StartClock + 1}
    /\ fn_ok \in BOOLEAN
    /\ fn_out = <<>>
    /\ PureIdle

NumApply ==
    /\ fn_out = <<>>
    /\ fn_out' = get_next_invoice_number_monthly(fn_numbers, fn_now, fn_ok)
    /\ UNCHANGED <<fn_numbers, fn_now, fn_ok>>
    /\ UNCHANGED <<sysvars, purevars>>

SpecNum == NumInit /\ [][NumApply]_vars

(***************************************************************************)
(* The money functions alone, on bounded texts and amounts                 *)
(***************************************************************************)
MoneyChars == {"1", ",", ".", "-", "x"}

ShortTexts == UNION {[1..n -> MoneyChars] : n \in 0..MaxMoneyLen}

\* The same amount in the French, US and Swiss writings.
FrenchText == <<"1", " ", "2", "3", "4", ",", "5", "6", " ", "€">>

UsText == <<"1", "2", "3", "4", ".", "5", "6">>

UsGroupedText == <<"1", ",", "2", "3", "4", ".", "5", "6">>

SwissText == <<"1", "'", "2", "3", "4", ".", "5", "6">>

NamedTexts ==
    {FrenchText, UsText, UsGroupedText, SwissText,
     <<"1", ".", "2", "3", "4", ",", "5", "6">>,
     <<"1", ",", "2", "3", "4", ",", "5", "6", "7">>,
     <<"1", ".", "2", "3", "4", ".", "5", "6", "7">>,
     <<"+", "1", "2">>, <<" ">>, <<"€">>, <<" ", "1", "0", " ", "€", " ">>}

LargeCents == {99999, 100000, 123456, 100000000, 123456789}

MoneyInputs ==
    {NoneVal} \cup {StrVal(t) : t \in ShortTexts \cup NamedTexts}
              \cup {AmountVal(Cents(c)) : c \in (0..MaxCents) \cup LargeCents}

MoneyInit ==
    /\ SysInitWith(<<>>)
    /\ FnIdle
    /\ m_in \in MoneyInputs
    /\ m_out = NoResult
    /\ TotalsIdle
    /\ SlugIdle
    /\ SendIdle

\* parse_currency(val)
MoneyParse ==
    /\ ~m_out.done
    /\ m_in.kind \in {"none", "str"}
    /\ m_out' = parse_currency(m_in)
    /\ UNCHANGED <<m_in, sysvars, fnvars, totalsvars, slugvars, sendvars>>

\* parse_currency(fmt_eur(x))
MoneyRoundTrip ==
    /\ ~m_out.done
    /\ m_in.kind = "amount"
    /\ m_out' = parse_currency(StrVal(fmt_eur(m_in.amount)))
    /\ UNCHANGED <<m_in, sysvars, fnvars, totalsvars, slugvars, sendvars>>

MoneyNext == MoneyParse \/ MoneyRoundTrip

SpecMoney == MoneyInit /\ [][MoneyNext]_vars

(***************************************************************************)
(* The totals alone, on the products sheet of the model                    *)
(***************************************************************************)
TotalsIds == {ProductsSheet[k].id : k \in 1..Len(ProductsSheet)} \cup {<<"P", "9">>}

ManualAmounts == {Cents(0), Cents(20000), Cents(3335)}

TotalsInputs ==
    [p : TotalsProcs, id : TotalsIds, qty : 1..MaxQty, montant_ht_manuel : ManualAmounts]

TotalsInit ==
    /\ SysInitWith(<<>>)
    /\ FnIdle
    /\ MoneyIdle
    /\ SlugIdle
    /\ SendIdle
    /\ t_in \in TotalsInputs
    /\ t_out = NoTotals

\* find_product raised (no such id, or a price that is not a number).
TotalsLookupFails ==
    /\ ~t_out.done
    /\ find_product(ProductsSheet, t_in.id).raised
    /\ t_out' = [NoTotals EXCEPT !.done = TRUE]
    /\ UNCHANGED <<t_in, sysvars, fnvars, moneyvars, slugvars, sendvars>>

\* find_product, then the totals, the row cells and the amounts on display.
TotalsCompute ==
    /\ ~t_out.done
    /\ LET product == find_product(ProductsSheet, t_in.id)
           a       == Totals(t_in.p, product, t_in.qty, t_in.montant_ht_manuel)
       IN  /\ ~product.raised
           /\ t_out' = [done |-> TRUE, product |-> product,
                        variable |-> VariableMode(t_in.p, product), amounts |-> a,
                        row |-> RowAmounts(a),
                        shown |-> ShownAmounts(t_in.p, product, t_in.qty, a)]
    /\ UNCHANGED <<t_in, sysvars, fnvars, moneyvars, slugvars, sendvars>>

TotalsNext == TotalsLookupFails \/ TotalsCompute

SpecTotals == TotalsInit /\ [][TotalsNext]_vars

(***************************************************************************)
(* slugify alone, on bounded names                                         *)
(***************************************************************************)
SlugChars == {"a", "Z", "1", "_", " ", "-", "é"}

SlugTexts == UNION {[1..n -> SlugChars] : n \in 0..MaxSlugLen}

FirstNames == {<<>>, <<"J", "e", "a", "n", "-", "A", "l">>}

SlugInputs == [nom : SlugTexts, prenom : FirstNames]

SlugInit ==
    /\ SysInitWith(<<>>)
    /\ FnIdle
    /\ MoneyIdle
    /\ TotalsIdle
    /\ SendIdle
    /\ sl_in \in SlugInputs
    /\ sl_out = NoSlug

\* slugify(nom), slugify of the result, and the name of the first document
\* of the month.
SlugApply ==
    /\ ~sl_out.done
    /\ sl_out' = [done |-> TRUE, slug |-> slugify(sl_in.nom), again |-> slugify(slugify(sl_in.nom)),
                  filename |-> Filename(get_next_invoice_number_monthly(<<>>, StartClock, TRUE),
                                        sl_in.nom, sl_in.prenom)]
    /\ UNCHANGED <<sl_in, sysvars, fnvars, moneyvars, totalsvars, sendvars>>

SpecSlug == SlugInit /\ [][SlugApply]_vars

(***************************************************************************)
(* The send step alone, on every combination of addresses and options      *)
(***************************************************************************)
SendInputs ==
    {SendInput(p, mail, o.send_to_client, o.send_to_accountant, accountant, sender) :
        p \in Procs, mail \in {ClientMail(id) : id \in ClientIds}, o \in [send_to_client : BOOLEAN,
        send_to_accountant : BOOLEAN], accountant \in {"", ACCOUNTANT_EMAIL}, sender \in {"", "moi@mail"}}

SendInit ==
    /\ SysInitWith(<<>>)
    /\ FnIdle
    /\ MoneyIdle
    /\ TotalsIdle
    /\ SlugIdle
    /\ sd_in \in {i \in SendInputs : i.p = "ui" \/ (i.send_to_client /\ i.send_to_accountant)}
    /\ sd_out = NoSend

\* The step runs; Gmail accepts the message or raises.
SendApply ==
    /\ ~sd_out.done
    /\ \E gmail_ok \in BOOLEAN : sd_out' = SendStep(sd_in, gmail_ok)
    /\ UNCHANGED <<sd_in, sysvars, fnvars, moneyvars, totalsvars, slugvars>>

SpecSend == SendInit /\ [][SendApply]_vars

(***************************************************************************)
(* Properties of the numbering function                                    *)
(***************************************************************************)
FnDone == fn_out # <<>>

AllDigits(s) == \A k \in 1..Len(s) : s[k] \in Digit

\* An entry that is exactly the prefix followed by four digits.
ExactEntry(n, prefix) ==
    /\ Len(n) = Len(prefix) + 4
    /\ SubSeq(n, 1, Len(prefix)) = prefix
    /\ AllDigits(SubSeq(n, Len(prefix) + 1, Len(n)))

SuffixNumber(n, prefix) == DigitsValue(SubSeq(n, Len(prefix) + 1, Len(n)))

ExactNumbers(cells, prefix) ==
    {SuffixNumber(cells[k], prefix) : k \in {j \in 1..Len(cells) : ExactEntry(cells[j], prefix)}}

ExpectedNext(cells, prefix) ==
    LET S == ExactNumbers(cells, prefix)
    IN  IF S = {} THEN 1 ELSE (CHOOSE m \in S : \A x \in S : x <= m) + 1

\* C2: after a successful read the result is the prefix of the current
\* month followed by max + 1 over the entries that are exactly that prefix
\* plus four digits (0001 when there is none); every other cell is ignored.
C2_NextIsMaxPlusOneOfExactEntries ==
    (FnDone /\ fn_ok) =>
        fn_out = InvoicePrefix(fn_now) \o Format04d(ExpectedNext(fn_numbers, InvoicePrefix(fn_now)))

SequencePart(number, c) == SubSeq(number, Len(InvoicePrefix(c)) + 1, Len(number))

HoldsLastNumber ==
    /\ fn_ok
    /\ \E k \in 1..Len(fn_numbers) :
          \/ fn_numbers[k] = Cell(fn_now, <<"9", "9", "9", "9">>)
          \/ fn_numbers[k] = Cell(fn_now, <<"9", "9", "9", "9", NL>>)

Separators == {",", "."}

\* A cleaned text the separator rules give a number to: an optional sign,
\* then digits and separators, with at least one digit.
SeparatedNumber(s) ==
    LET body == IF Len(s) > 0 /\ s[1] \in {"+", "-"} THEN Tail(s) ELSE s
    IN  /\ \A k \in 1..Len(body) : body[k] \in Digit \cup Separators
        /\ \E k \in 1..Len(body) : body[k] \in Digit

\* The number the rules read: the rightmost separator is the decimal point,
\* every other separator is dropped.
RightmostIsDecimal(s) ==
    LET seps == {k \in 1..Len(s) : s[k] \in Separators}
        last == IF seps = {} THEN 0 ELSE CHOOSE k \in seps : \A j \in seps : j <= k
        mark == [k \in 1..Len(s) |-> IF k \notin seps THEN s[k] ELSE IF k = last THEN "." ELSE "#"]
    IN  PyFloat(Without(mark, {"#"}))

ParsedText == m_out.done /\ m_in.kind = "str"

\* C18: for every text whose cleaned form is digits and separators with an
\* optional sign, parse_currency returns the number in which the rightmost
\* separator is the decimal separator and every other separator is removed
\* (no separator: an integer; one separator: the decimal separator).
C18_RightmostSeparatorIsDecimal ==
    (ParsedText /\ SeparatedNumber(MoneyCleaned(m_in.text))) =>
        m_out = RightmostIsDecimal(MoneyCleaned(m_in.text))

\* C19: parse_currency returns a number for every argument, never raising,
\* and returns 0 for None and for an empty (blank) text.
C19_ParseNeverFails ==
    (m_out.done /\ m_in.kind \in {"none", "str"}) =>
        /\ ~m_out.raised
        /\ (m_in.kind = "none" \/ Len(Strip(m_in.text)) = 0) => m_out.val = Zero

\* The text fmt_eur writes for an amount of c cents: the integer part in
\* groups of three digits separated by spaces, a comma, two digits, a space
\* and the euro sign.
FrenchWriting(t, c) ==
    LET n  == Len(t)
        ip == SubSeq(t, 1, n - 5)
    IN  /\ n >= 6
        /\ t[n] = "€" /\ t[n - 1] = " "
        /\ t[n - 2] \in Digit /\ t[n - 3] \in Digit
        /\ t[n - 4] = ","
        /\ \A k \in 1..Len(ip) : IF (Len(ip) - k + 1) % 4 = 0 THEN ip[k] = " " ELSE ip[k] \in Digit
        /\ ip[1] \in Digit
        /\ 100 * DigitsValue(Without(ip, {" "})) + DigitsValue(<<t[n - 3], t[n - 2]>>) = c

RoundTripped == m_out.done /\ m_in.kind = "amount"

\* C20: for every non-negative amount x of two decimals, fmt_eur(x) is the
\* French writing of x and parse_currency(fmt_eur(x)) returns x.
C20_ParseOfFormatIsIdentity ==
    RoundTripped =>
        /\ FrenchWriting(fmt_eur(m_in.amount), Round2(m_in.amount))
        /\ m_out = Returned(m_in.amount)

\* C20 witness: an amount with two groups of thousands went through the
\* round trip.
C20_Witness ==
    /\ RoundTripped
    /\ Round2(m_in.amount) = 123456789
    /\ m_out = Returned(m_in.amount)

(***************************************************************************)
(* Properties of the totals                                                *)
(***************************************************************************)
Computed == t_out.done /\ ~t_out.product.raised

\* The row of the products sheet the totals were computed for.
SheetRow == ProductsSheet[FirstRow(ProductsSheet, t_in.id)]

\* The tva cell of the row says 0.
ExemptRow(r) == Strip(r.tva) \in ExemptWritings

\* The product is one of those designated for the variable amount: its id
\* is "PAP variable", or its label contains "STAGE PAP" in any letter case.
Designated(r) ==
    \/ r.id = PAP_VARIABLE
    \/ \E off \in 0..(Len(r.libelle) - Len(STAGE_PAP)) :
          \A k \in 1..Len(STAGE_PAP) : Upper(r.libelle[off + k]) = STAGE_PAP[k]

\* The amounts read back from the three cells of the row and from the three
\* amounts on display.
RowCell(k) == PyFloat(t_out.row[k]).val

ShownCell(k) == parse_currency(StrVal(t_out.shown[k])).val

GrossIsNetPlusTax ==
    /\ RowCell(3) = Plus(RowCell(1), RowCell(2))
    /\ ShownCell(3) = Plus(ShownCell(1), ShownCell(2))

NoTax ==
    /\ RowCell(2) = Zero /\ RowCell(3) = RowCell(1)
    /\ ShownCell(2) = Zero /\ ShownCell(3) = ShownCell(1)

UnitNet(r) == parse_currency(StrVal(Strip(r.prix_ht))).val

UnitGross(r) == parse_currency(StrVal(Strip(r.prix_ttc))).val

\* C14: for a catalog product, net = unit_net * quantity, gross = unit_net *
\* quantity when tax-exempt and unit_gross * quantity otherwise, and
\* tax = gross - net (not a rate times the net amount).
C14_CatalogTotals ==
    (Computed /\ ~Designated(SheetRow)) =>
        LET net   == TimesInt(UnitNet(SheetRow), t_in.qty)
            gross == TimesInt(IF ExemptRow(SheetRow) THEN UnitNet(SheetRow) ELSE UnitGross(SheetRow),
                              t_in.qty)
        IN  /\ t_out.amounts = Amounts(net, Minus(gross, net), gross)
            /\ t_out.row = <<Format2f(net), Format2f(Minus(gross, net)), Format2f(gross)>>
            /\ t_out.shown = <<fmt_eur(net), fmt_eur(Minus(gross, net)), fmt_eur(gross)>>

\* C14 witness: the command line computed the totals of three units of a
\* product whose gross price is not net plus the rate of its tva cell.
C14_Witness ==
    /\ Computed
    /\ t_in.p = "cli" /\ t_in.id = <<"P", "4">> /\ t_in.qty = 3
    /\ t_out.amounts = Amounts(Cents(3000), Cents(603), Cents(3603))

\* C15: in the UI the variable-amount mode is selected exactly for the
\* designated products; in that mode net = amount typed * quantity,
\* tax = net * 0.20 and gross = net + tax (200.00 typed, quantity 1: tax
\* 40.00, gross 240.00).
C15_VariableModeOfDesignatedProducts ==
    (Computed /\ t_in.p = "ui") =>
        /\ t_out.variable <=> Designated(SheetRow)
        /\ t_out.variable =>
              LET net == TimesInt(t_in.montant_ht_manuel, t_in.qty)
                  tax == Times(net, VariableTvaRate)
              IN  t_out.amounts = Amounts(net, tax, Plus(net, tax))
        /\ (t_out.variable /\ t_in.montant_ht_manuel = Cents(20000) /\ t_in.qty = 1) =>
              /\ t_out.amounts.montant_tva = Cents(4000)
              /\ t_out.amounts.montant_ttc = Cents(24000)

\* C15 witness: the UI computed the totals of a product designated by its
\* label (written in lower case), 200.00 typed, quantity 1.
C15_Witness ==
    /\ Computed
    /\ t_in.p = "ui" /\ t_in.id = <<"P", "6">>
    /\ t_in.montant_ht_manuel = Cents(20000) /\ t_in.qty = 1
    /\ t_out.variable
    /\ t_out.shown = <<fmt_eur(Cents(20000)), fmt_eur(Cents(4000)), fmt_eur(Cents(24000))>>

(***************************************************************************)
(* Properties of the submissions                                           *)
(***************************************************************************)
Appended == (base + 1)..Len(ledger)

LastStep(p) == log[p][Len(log[p])]

HasStep(p, step, ok) == \E k \in 1..Len(log[p]) : log[p][k] = [step |-> step, ok |-> ok]

\* The document of the submission of p is in the Drive folder.
DocStored(p) ==
    /\ drive_link[p] \in 1..Len(drive)
    /\ drive[drive_link[p]].numero = invoice_number[p]

\* Exactly one appended row carries the number of the submission of p and
\* the link of its document.
RowStored(p) ==
    Cardinality({j \in Appended : /\ ledger[j].numero = invoice_number[p]
                                   /\ ledger[j].lien_drive = drive_link[p]}) = 1

\* C1: a UI submission with non-blank notes in which no collaborator (ledger
\* read, upload, send, ledger append) failed ends with its document rendered
\* and uploaded and exactly one row carrying its number appended.
C1_UiSubmissionRunsToTheEnd ==
    (pc["ui"] \in Over /\ ~NotesBlank(inp["ui"].notes) /\ NoCollaboratorFailed(log["ui"])) =>
        /\ pc["ui"] = "done"
        /\ HasStep("ui", "render", TRUE)
        /\ DocStored("ui")
        /\ RowStored("ui")

SeqNumber(row) == DigitsValue(SequencePart(row.numero, row.ym))

\* C3: when every submission read the ledger (successfully) after the row
\* of every earlier submission was appended, the numbers of the appended
\* rows of one month are strictly increasing.
C3_SequentialNumbersIncrease ==
    (\A j \in Appended : ledger[j].readOk /\ ledger[j].readAt = j - 1) =>
        \A i, j \in Appended :
            (i < j /\ ledger[i].ym = ledger[j].ym) => SeqNumber(ledger[i]) < SeqNumber(ledger[j])

\* C5: the number of every appended row is the one its submission computed
\* from the rows it read, whatever was appended in between: the append is
\* not conditional on the number still being free.
C5_RowCarriesNumberOfItsSnapshot ==
    \A j \in Appended :
        ledger[j].numero =
            get_next_invoice_number_monthly(ColumnA(SubSeq(ledger, 1, ledger[j].readAt)),
                                            ledger[j].ym, ledger[j].readOk)

\* C5 witness: two submissions read the same rows (both reads succeeded),
\* and both appended a row with the same number.
C5_Witness ==
    \E i, j \in Appended :
        /\ i < j
        /\ ledger[i].readOk /\ ledger[j].readOk
        /\ ledger[i].readAt = ledger[j].readAt
        /\ ledger[i].numero = ledger[j].numero
        /\ ledger[i].lien_drive # ledger[j].lien_drive

StepRank(step) ==
    CASE step = "number" -> 1 [] step = "render" -> 2 [] step = "upload" -> 3
      [] step = "email" -> 4 [] step = "append" -> 5

\* C6: the external steps of a submission run in the order numbering read,
\* render, upload, send, append, each after the previous one is over; a row
\* is in the ledger only with its document in the Drive folder.
C6_StepsInOrder ==
    /\ \A p \in Procs :
          /\ \A a, b \in 1..Len(log[p]) : a < b => StepRank(log[p][a].step) < StepRank(log[p][b].step)
          /\ pc[p] \in {"today", "render"} => LastStep(p).step = "number"
          /\ pc[p] = "upload" => LastStep(p) = [step |-> "render", ok |-> TRUE]
          /\ pc[p] = "email" => LastStep(p) = [step |-> "upload", ok |-> TRUE]
          /\ pc[p] = "append" => /\ LastStep(p).step \in {"upload", "email"}
                                 /\ HasStep(p, "upload", TRUE)
          /\ pc[p] = "done" => LastStep(p) = [step |-> "append", ok |-> TRUE]
    /\ \A j \in Appended :
          /\ ledger[j].lien_drive \in 1..Len(drive)
          /\ drive[ledger[j].lien_drive].numero = ledger[j].numero

\* C6 witness: a submission ran all five steps.
C6_Witness ==
    \E p \in Procs :
        /\ pc[p] = "done"
        /\ Len(log[p]) = 5
        /\ \A k \in 1..5 : log[p][k].ok
        /\ RowStored(p)

FailedAt(p, k) == ~log[p][k].ok /\ log[p][k].step \in {"render", "upload", "email"}

\* What the steps that returned have left behind is still there.
EffectsKept(p) ==
    /\ HasStep(p, "upload", TRUE) => DocStored(p)
    /\ HasStep(p, "email", TRUE) =>
          \E m \in 1..Len(outbox) : outbox[m].numero = invoice_number[p]

\* C7 as claimed: in every entry point a failed render, upload or send is
\* the last step of its submission (no row is appended), and the effects
\* of the steps before it stay.
C7_FailureEndsSubmission ==
    \A p \in Procs :
        /\ EffectsKept(p)
        /\ \A k \in 1..Len(log[p]) :
              FailedAt(p, k) => (k = Len(log[p]) /\ pc[p] = "failed")

\* C7 amended: the same, except that main of mvp_invoicing.py goes on to the
\* ledger append after a failed send.
C7_FailureEndsSubmissionButMvpSend ==
    \A p \in Procs :
        /\ EffectsKept(p)
        /\ \A k \in 1..Len(log[p]) :
              FailedAt(p, k) =>
                 \/ k = Len(log[p]) /\ pc[p] = "failed"
                 \/ p = "mvp" /\ log[p][k].step = "email" /\ pc[p] \in {"append", "done", "failed"}

\* C7 witness: main of invoicing.py stopped on a failed send, its document
\* still in the Drive folder and no row appended for it.
C7_Witness ==
    /\ pc["cli"] = "failed"
    /\ LastStep("cli") = [step |-> "email", ok |-> FALSE]
    /\ DocStored("cli")
    /\ \A j \in Appended : ledger[j].lien_drive # drive_link["cli"]

\* C8: a submission whose numbering read failed is over at once, in error,
\* and holds no invoice number.
C8_FailedReadEndsSubmission ==
    \A p \in Procs :
        HasStep(p, "number", FALSE) =>
            /\ pc[p] = "failed"
            /\ Len(log[p]) = 1
            /\ invoice_number[p] = NoText

C10_SubmitDisabledWhileProcessing ==
    session_state.processing => submit_disabled

\* The calls to the external services in the steps of a submission.
ExternalCalls(steps) == SelectSeq(steps, LAMBDA e : e.step \in Collaborators)

\* C16: a UI submission and a run of main of invoicing.py with the same
\* client, product, quantity and non-blank notes, which read the same
\* ledger and in which no collaborator failed, make the same sequence of
\* external calls and both append their row, with the same number.
C16_CliSameAsUi ==
    ( /\ pc["ui"] \in Over /\ pc["cli"] \in Over
      /\ inp["ui"] = inp["cli"]
      /\ ~NotesBlank(inp["ui"].notes)
      /\ snap["ui"].readAt = snap["cli"].readAt
      /\ NoCollaboratorFailed(log["ui"])
      /\ \A k \in 1..Len(log["cli"]) : log["cli"][k].ok ) =>
        /\ ExternalCalls(log["ui"]) = ExternalCalls(log["cli"])
        /\ invoice_number["ui"] = invoice_number["cli"]
        /\ RowStored("ui") /\ RowStored("cli")

(***************************************************************************)
(* Properties of the start-up                                              *)
(***************************************************************************)
Started(p) == pc[p] # "idle"

NothingDone(p) ==
    /\ log[p] = <<>>
    /\ invoice_number[p] = NoText
    /\ drive_link[p] = 0

\* C11: when GOOGLE_FOLDER_ID or ACCOUNTING_SPREADSHEET_ID is absent, the
\* entry point stops before the credentials are loaded and before any call
\* to Sheets, Drive or Gmail; the command line prints a line and exits with
\* code 1, the UI shows an error and stops.
C11_IncompleteConfigStopsBeforeAnyCall ==
    \A p \in Procs :
        (Started(p) /\ ~(boot[p].env.GOOGLE_FOLDER_ID /\ boot[p].env.ACCOUNTING_SPREADSHEET_ID)) =>
            /\ pc[p] = "stopped"
            /\ boot[p].calls = <<>>
            /\ boot[p].outcome = (IF p = "ui" THEN "st.error, st.stop" ELSE "print, exit 1")
            /\ NothingDone(p)

\* C11 witness: the command line stopped for want of the folder identifier.
C11_Witness ==
    /\ pc["cli"] = "stopped"
    /\ ~boot["cli"].env.GOOGLE_FOLDER_ID /\ boot["cli"].env.ACCOUNTING_SPREADSHEET_ID
    /\ boot["cli"].outcome = "print, exit 1"

UnknownId(p) == inp[p].client \notin ClientIds \/ inp[p].product \notin ProductIds

\* C12: when the client id or the product id is in no row of the table read,
\* the look-up raises ValueError and the submission ends before numbering:
\* no number, no document, no upload, no message, no row.
C12_UnknownIdEndsBeforeNumbering ==
    \A p \in Procs :
        (Started(p) /\ UnknownId(p) /\ boot[p].outcome \notin {"print, exit 1", "HttpError"}) =>
            /\ pc[p] = "failed"
            /\ boot[p].outcome = "ValueError"
            /\ NothingDone(p)

\* C12 witness: main of invoicing.py ended on a product id the table does
\* not hold, after both tables were read.
C12_Witness ==
    /\ pc["cli"] = "failed"
    /\ inp["cli"].client \in ClientIds /\ inp["cli"].product \notin ProductIds
    /\ boot["cli"].outcome = "ValueError"
    /\ boot["cli"].calls[Len(boot["cli"].calls)] = "get products"

\* C17: a step never changes or removes a data row of the ledger; it adds
\* at most one row, at the end, exactly when a submission completes, and the
\* only other write to the sheet puts the titles in row 1.
C17_LedgerAppendOnly ==
    [][ /\ Len(ledger') \in {Len(ledger), Len(ledger) + 1}
        /\ SubSeq(ledger', 1, Len(ledger)) = ledger
        /\ Len(ledger') = Len(ledger) + 1 =>
              \E p \in Procs : pc[p] = "append" /\ pc'[p] = "done"
        /\ \A p \in Procs :
              (pc[p] # "done" /\ pc'[p] = "done") =>
                 /\ Len(ledger') = Len(ledger) + 1
                 /\ ledger'[Len(ledger')].numero = invoice_number[p]
                 /\ ledger'[Len(ledger')].lien_drive = drive_link[p]
        /\ header => header'
      ]_vars

\* C17 witness: a submission rewrote the titles, completed and appended its
\* row below the rows the ledger already held.
C17_Witness ==
    \E p \in Procs :
        /\ pc[p] = "done"
        /\ boot[p].calls[3] = "update A1:M1"
        /\ base > 0 /\ Len(ledger) = base + 1
        /\ \A k \in 1..base : ledger[k].lien_drive = 0
        /\ ledger[base + 1].numero = invoice_number[p]

(***************************************************************************)
(* Properties of slugify                                                   *)
(***************************************************************************)
SlugAlnum(c) == c \in AZ \cup Digit

\* The slug read off the lower-cased text position by position: every
\* letter or digit is kept, preceded by one underscore when it starts a new
\* run that is not the first one.
SlugOf(s) ==
    LET l == LowerText(s)
        piece[k \in 0..Len(l)] ==
            IF k = 0 THEN <<>>
            ELSE IF ~SlugAlnum(l[k]) THEN piece[k - 1]
            ELSE IF k > 1 /\ ~SlugAlnum(l[k - 1]) /\ (\E j \in 1..(k - 1) : SlugAlnum(l[j]))
                 THEN piece[k - 1] \o <<"_", l[k]>>
                 ELSE piece[k - 1] \o <<l[k]>>
    IN  piece[Len(l)]

WellFormedSlug(g) ==
    /\ \A k \in 1..Len(g) : g[k] \in AZ \cup Digit \cup {"_"}
    /\ Len(g) > 0 => (g[1] # "_" /\ g[Len(g)] # "_")
    /\ \A k \in 1..(Len(g) - 1) : ~(g[k] = "_" /\ g[k + 1] = "_")

\* C22: slugify(s) is s in lower case with every run of characters other
\* than a-z and 0-9 replaced by one underscore and no underscore at either
\* end; it holds only a-z, 0-9 and "_", with no doubled underscore;
\* slugify(slugify(s)) = slugify(s); the document is named
\* number_slug(last name)_slug(first name).pdf.
C22_SlugifyWellFormedAndIdempotent ==
    sl_out.done =>
        /\ sl_out.slug = SlugOf(sl_in.nom)
        /\ WellFormedSlug(sl_out.slug)
        /\ sl_out.again = sl_out.slug
        /\ sl_out.filename =
              InvoicePrefix(StartClock) \o <<"0", "0", "0", "1", "_">> \o SlugOf(sl_in.nom) \o <<"_">>
                 \o SlugOf(sl_in.prenom) \o <<".", "p", "d", "f">>

\* C22 witness: the slug of "_Z-é", and the file name made with a
\* hyphenated first name.
C22_Witness ==
    /\ sl_out.done
    /\ sl_in.nom = <<"_", "Z", "-", "é">> /\ sl_in.prenom = <<"J", "e", "a", "n", "-", "A", "l">>
    /\ sl_out.slug = <<"z">>
    /\ sl_out.filename =
          <<"F", "A", "C", "T", "-", "2", "0", "2", "5", "1", "2", "-", "0", "0", "0", "1", "_", "z", "_",
            "j", "e", "a", "n", "_", "a", "l", ".", "p", "d", "f">>

(***************************************************************************)
(* Properties of the ledger rows                                           *)
(***************************************************************************)
\* C21: the quantity of every row an entry point appended is an integer
\* between 1 and 100.
C21_RowQuantityInRange ==
    \A j \in Appended : ledger[j].quantite \in 1..100

\* The row appended for the submission of p has an empty recipient cell.
RowWithoutRecipient(p) ==
    \E j \in Appended :
        /\ ledger[j].numero = invoice_number[p]
        /\ ledger[j].lien_drive = drive_link[p]
        /\ ledger[j].email_envoye_a = ""

\* C23: a submission for a client whose mail is the empty string, in which
\* no collaborator (ledger read, upload, ledger append) and no document
\* build failed, sends no message and still renders and uploads the
\* document and appends the row, with an empty recipient cell.
C23_EmptyEmailPermitted ==
    \A p \in Procs :
        ( /\ pc[p] \in Over
          /\ inp[p].client \in ClientIds /\ Recipient(p) = ""
          /\ \E k \in 1..Len(inp[p].notes) : inp[p].notes[k] \notin Whitespace
          /\ NoCollaboratorFailed(log[p])
          /\ p # "ui" => ~HasStep(p, "render", FALSE) ) =>
            /\ pc[p] = "done"
            /\ HasStep(p, "render", TRUE)
            /\ ~HasStep(p, "email", TRUE) /\ ~HasStep(p, "email", FALSE)
            /\ DocStored(p)
            /\ RowStored(p)
            /\ RowWithoutRecipient(p)

(***************************************************************************)
(* Properties of the form handler                                          *)
(***************************************************************************)
\* Nothing but white space (the empty text included).
BlankText(n) == \A k \in 1..Len(n) : n[k] \in Whitespace

\* C24: a UI submission whose notes are empty or white space only is
\* rejected at once: the processing flag is not set, the last-sent key is
\* unchanged, no numbering read, render, upload, send or append is made,
\* and the run ends there.
C24_BlankNotesRejected ==
    [][ /\ (pc["ui"] = "idle" /\ pc'["ui"] # "idle" /\ BlankText(inp'["ui"].notes)) =>
              /\ pc'["ui"] = "stopped"
              /\ ~session_state'.processing
              /\ session_state' = session_state
              /\ ledger' = ledger /\ drive' = drive /\ outbox' = outbox
              /\ log'["ui"] = <<>> /\ invoice_number'["ui"] = NoText /\ drive_link'["ui"] = 0
        /\ (pc["ui"] = "stopped" /\ BlankText(inp["ui"].notes) /\ pc'["ui"] # "stopped") =>
              /\ pc'["ui"] = "idle"
              /\ session_state' = session_state
              /\ ledger' = ledger /\ drive' = drive /\ outbox' = outbox
      ]_vars

\* C24 witness: the form was submitted with a single space as notes and the
\* run stopped with nothing done.
C24_Witness ==
    /\ pc["ui"] = "stopped"
    /\ inp["ui"].notes = <<" ">>
    /\ ~session_state.processing
    /\ NothingDone("ui")

(***************************************************************************)
(* Properties of the titles of the ledger sheet                            *)
(***************************************************************************)
\* C25: once init_factures_header_if_missing has run, row 1 of the ledger
\* sheet holds the titles; when row 1 was not empty before the call, the
\* call writes nothing, whatever the outcome of its read of A1:M1.
C25_HeaderWrittenOnlyWhenMissing ==
    [][ \A p \in Procs :
           (boot[p].calls = <<>> /\ boot'[p].calls # <<>>) =>
              /\ header'
              /\ header => \A k \in 1..Len(boot'[p].calls) : boot'[p].calls[k] # "update A1:M1"
      ]_vars

(***************************************************************************)
(* Properties of the send step                                             *)
(***************************************************************************)
Addressed(address) ==
    \E k \in 1..Len(sd_out.sent) : sd_out.sent[k].to = address \/ sd_out.sent[k].cc = address

InHandler == {"number", "today", "render", "upload", "email", "append"} \cup Over

\* C27: once a UI submission has been handled, whatever its outcome, the
\* processing flag is false again: the flag is true only while the handler
\* runs, never between two submissions.
C27_FlagFalseAfterSubmission ==
    /\ pc["ui"] = "idle" => ~session_state.processing
    /\ session_state.processing => pc["ui"] \in InHandler

\* C27 witness: a UI submission with notes set the flag, ended on an
\* exception, and the flag is false again.
C27_Witness ==
    /\ pc["ui"] = "idle"
    /\ prev.inp.notes = <<"s">>
    /\ ~session_state.processing
    /\ Len(drive) = 0 /\ Len(ledger) = base

(***************************************************************************)
(* Properties of submissions made one after the other                      *)
(***************************************************************************)
\* The numbers that left the system: in a stored document, or in a message.
NumbersOut ==
    {drive[k].numero : k \in 1..Len(drive)} \cup {outbox[k].numero : k \in 1..Len(outbox)}

\* The numbers of the documents stored by the submissions before that of p.
NumbersOutBefore(p) ==
    {drive[k].numero : k \in (1..Len(drive)) \ {drive_link[p]}}

\* C28: with submissions made one after the other, a number that is on a
\* stored document or in a message sent is never given to a later
\* submission, and once the submissions are over every such number is in
\* exactly one row of the ledger.
C28_NumberOutIsNeverReused ==
    /\ \A p \in Procs :
          pc[p] \in {"today", "render", "upload", "email", "append"} \cup Over =>
             invoice_number[p] \notin NumbersOutBefore(p)
    /\ (\A p \in Procs : pc[p] = "idle") =>
          \A n \in NumbersOut : Cardinality({j \in 1..Len(ledger) : ledger[j].numero = n}) = 1

(***************************************************************************)
(* Properties of the recipient cell and of the dates                       *)
(***************************************************************************)
\* The rows appended for the submission of p.
RowsOf(p) ==
    {j \in Appended : ledger[j].numero = invoice_number[p] /\ ledger[j].lien_drive = drive_link[p]}

\* C29: the cell email_envoye_a of an appended row is not empty only when
\* the submission that appended it sent a message to that address, the
\* send having succeeded.
C29_RecipientCellOnlyWhenSent ==
    \A p \in Procs :
        pc[p] = "done" =>
            \A j \in RowsOf(p) :
                ledger[j].email_envoye_a # "" =>
                    /\ HasStep(p, "email", TRUE)
                    /\ \E m \in 1..Len(outbox) :
                          /\ outbox[m].to = ledger[j].email_envoye_a
                          /\ outbox[m].numero = ledger[j].numero

\* C30: in every appended row, the year and month written in the invoice
\* number are the year and month of the date of the row.
C30_NumberMonthIsDateMonth ==
    \A j \in Appended :
        /\ StartsWith(ledger[j].numero, InvoicePrefix(ledger[j].date))
        /\ YearOf(ledger[j].ym) = YearOf(ledger[j].date)
        /\ MonthOf(ledger[j].ym) = MonthOf(ledger[j].date)

====
